---------------------------- MODULE Spec2Model ----------------------------
(***************************************************************************)
(* A model of the rendering surface of mapnik: the render session hooks of *)
(* agg_renderer, the Image32 framebuffer with its compositing primitives,  *)
(* the image resamplers of image_util.hpp, and the point and box           *)
(* reprojection of proj_transform.cpp with its process-wide lock.          *)
(*                                                                         *)
(* One group of variables per component; each specification drives one     *)
(* component and leaves the others in their idle state.                    *)
(***************************************************************************)
EXTENDS Integers, Sequences, FiniteSets, TLC

VARIABLES
    \* ---- render session (agg_renderer)
    detector_,      \* the placed boxes of the label collision detector
    clip_box,       \* the rasterizer's clip rectangle, <<>> before it is set
    hook,           \* the last hook or collaborator call, with its arguments
    layerNo,        \* number of start_layer_processing calls so far
    curClear,       \* clear_label_cache flag of the current layer
    prevClear,      \* clear_label_cache flag of the layer before it
    curPlaced,      \* boxes placed since the current layer started
    prevPlaced,     \* boxes placed during the layer before it
    sinceClear,     \* boxes placed since the last clearing layer started
    \* ---- framebuffer (Image32)
    width_,         \* Image32::width_
    height_,        \* Image32::height_
    data_,          \* Image32::data_, a function of <<x, y>>
    call,           \* the last framebuffer call, with its arguments
    old_data,       \* data_ as it was before that call
    fault,          \* a call touched memory outside a buffer or divided by 0
    nops,           \* number of framebuffer calls so far
    \* ---- resampling (image_util.hpp)
    source,         \* the source buffer: width, height and pixels
    target,         \* the target buffer
    old_target,     \* the target as it was before the last resampling call
    scaled,         \* the last resampling call, with its offsets
    scale_fault,    \* a resampling call read or wrote outside a buffer
    \* ---- box reprojection (proj_transform.cpp)
    transform_,     \* the proj_transform: its two references and what they do
    env,            \* the caller's box, in units of 1 / env.den
    boxed,          \* the last forward/backward(box, points) call
    \* ---- threads calling forward/backward(x, y, z)
    mutex_,         \* projection::mutex_: the thread holding it, or NoThread
    pc,             \* where every thread is in its call
    outcome,        \* what every thread's last call returned, and the unit of
                    \* its x and y
    ncalls,         \* the calls made so far
    build           \* MAPNIK_THREADSAFE and PJ_VERSION of the build

sessionVars == <<detector_, clip_box, hook, layerNo, curClear, prevClear,
                 curPlaced, prevPlaced, sinceClear>>

imageVars == <<width_, height_, data_, call, old_data, fault, nops>>

scaleVars == <<source, target, old_target, scaled, scale_fault>>

boxVars == <<transform_, env, boxed>>

threadVars == <<mutex_, pc, outcome, ncalls, build>>

vars == <<sessionVars, imageVars, scaleVars, boxVars, threadVars>>

-----------------------------------------------------------------------------
(* Bounds of the model.                                                    *)

\* number of layers one session starts
MaxLayers == 3
\* number of distinct label boxes the collaborators may place
MaxBoxes == 3
\* pixel width and height of the session's framebuffer
MapDim == 4
\* largest width and height of a framebuffer or of a source buffer
MaxDim == 2
\* number of setPixel and blendPixel calls in one run
MaxOps == 2
\* distance between two sampled channel levels
LevelStep == 51
\* largest width and height of a resampled buffer
MaxScaleDim == 4
\* largest fractional offset handed to the bilinear resamplers, in quarters
MaxOffset == 4
\* largest coordinate of a reprojected box
MaxCoord == 2
\* largest number of perimeter points asked for
MaxPoints == 9
\* number of threads calling forward/backward(x, y, z)
MaxThreads == 2
\* number of calls they make between them
MaxCalls == 3

-----------------------------------------------------------------------------
(* The idle state of each component, which a specification that drives     *)
(* another component leaves it in.                                         *)

NoSource == [width |-> 0, height |-> 0, data |-> <<>>]

NoCall == [op |-> "Image32", x |-> 0, y |-> 0, rgba |-> 0, t |-> 0, src |-> NoSource]

SessionIdle ==
    /\ detector_ = {}
    /\ clip_box = <<>>
    /\ hook = [op |-> "none", clear |-> FALSE, before |-> {}]
    /\ layerNo = 0
    /\ curClear = FALSE
    /\ prevClear = FALSE
    /\ curPlaced = {}
    /\ prevPlaced = {}
    /\ sinceClear = {}

ImageIdle ==
    /\ width_ = 0
    /\ height_ = 0
    /\ data_ = <<>>
    /\ call = NoCall
    /\ old_data = <<>>
    /\ fault = FALSE
    /\ nops = 0

NoBuffer == [width |-> 0, height |-> 0, data |-> <<>>]

NotScaled == [op |-> "none", x_off |-> 0, y_off |-> 0]

ScaleIdle ==
    /\ source = NoBuffer
    /\ target = NoBuffer
    /\ old_target = NoBuffer
    /\ scaled = NotScaled
    /\ scale_fault = FALSE

NoBox == [minx |-> 0, miny |-> 0, maxx |-> 0, maxy |-> 0, den |-> 1]

NotBoxed ==
    [op |-> "none", points |-> 0, order |-> "none", ret |-> TRUE,
     before |-> NoBox, coords |-> <<>>, steps |-> 1, transformed |-> <<>>]

BoxIdle ==
    /\ transform_ = [kind |-> "none", rejects |-> "none"]
    /\ env = NoBox
    /\ boxed = NotBoxed

NoThread == 0

ThreadsIdle ==
    /\ mutex_ = NoThread
    /\ pc = <<>>
    /\ outcome = <<>>
    /\ ncalls = 0
    /\ build = [MAPNIK_THREADSAFE |-> FALSE, PJ_VERSION |-> 0]

-----------------------------------------------------------------------------
(* Render session: agg_renderer                                            *)

\* label boxes offered by the text collaborators: box i overlaps box i+1
LabelBox(i) == [minx |-> 2 * i, miny |-> 0, maxx |-> 2 * i + 3, maxy |-> 2]

LabelBoxes == {LabelBox(i) : i \in 1..MaxBoxes}

Layers == [id : 1..MaxLayers, clear_label_cache : BOOLEAN]

\* box2d::intersects
box_intersects(a, b) ==
    ~(b.minx > a.maxx \/ b.maxx < a.minx \/ b.miny > a.maxy \/ b.maxy < a.miny)

\* label_collision_detector::clear
detector_clear(det) == {}

\* label_collision_detector::insert
detector_insert(det, box) == det \cup {box}

\* the placed boxes a placement query for box q reports as obstacles
obstacles(det, q) == {b \in det : box_intersects(b, q)}

\* faulty variant: the call of clear() is missing
start_layer_processing_no_clear(det, lay) == det

\* faulty variant: the flag is read inverted
start_layer_processing_inverted(det, lay) ==
    IF ~lay.clear_label_cache THEN detector_clear(det) ELSE det

\* agg_renderer::start_layer_processing, as a function of the detector
start_layer_processing(det, lay) ==
    IF lay.clear_label_cache THEN detector_clear(det) ELSE det

SessionInit ==
    /\ detector_ = {}
    /\ clip_box = <<>>
    /\ hook = [op |-> "agg_renderer", clear |-> FALSE, before |-> {}]
    /\ layerNo = 0
    /\ curClear = FALSE
    /\ prevClear = FALSE
    /\ curPlaced = {}
    /\ prevPlaced = {}
    /\ sinceClear = {}

StartMap ==
    /\ clip_box' = <<0, 0, MapDim, MapDim>>
    /\ hook' = [op |-> "start_map_processing", clear |-> FALSE, before |-> detector_]
    /\ UNCHANGED <<detector_, layerNo, curClear, prevClear, curPlaced,
                   prevPlaced, sinceClear>>
    /\ UNCHANGED <<imageVars, scaleVars, boxVars, threadVars>>

StartLayer ==
    \E lay \in Layers :
        /\ layerNo < MaxLayers
        /\ lay.id = layerNo + 1
        /\ detector_' = start_layer_processing(detector_, lay)
        /\ hook' = [op |-> "start_layer_processing",
                    clear |-> lay.clear_label_cache, before |-> detector_]
        /\ layerNo' = layerNo + 1
        /\ prevClear' = curClear
        /\ curClear' = lay.clear_label_cache
        /\ prevPlaced' = curPlaced
        /\ curPlaced' = {}
        /\ sinceClear' = IF lay.clear_label_cache THEN {} ELSE sinceClear
        /\ UNCHANGED clip_box
        /\ UNCHANGED <<imageVars, scaleVars, boxVars, threadVars>>

\* a text collaborator places a label while a layer is rendered
PlaceLabel ==
    \E b \in LabelBoxes :
        /\ layerNo >= 1
        /\ detector_' = detector_insert(detector_, b)
        /\ hook' = [op |-> "insert", clear |-> FALSE, before |-> detector_]
        /\ curPlaced' = curPlaced \cup {b}
        /\ sinceClear' = sinceClear \cup {b}
        /\ UNCHANGED <<clip_box, layerNo, curClear, prevClear, prevPlaced>>
        /\ UNCHANGED <<imageVars, scaleVars, boxVars, threadVars>>

EndLayer ==
    /\ hook' = [op |-> "end_layer_processing", clear |-> FALSE, before |-> detector_]
    /\ UNCHANGED <<detector_, clip_box, layerNo, curClear, prevClear,
                   curPlaced, prevPlaced, sinceClear>>
    /\ UNCHANGED <<imageVars, scaleVars, boxVars, threadVars>>

EndMap ==
    /\ hook' = [op |-> "end_map_processing", clear |-> FALSE, before |-> detector_]
    /\ UNCHANGED <<detector_, clip_box, layerNo, curClear, prevClear,
                   curPlaced, prevPlaced, sinceClear>>
    /\ UNCHANGED <<imageVars, scaleVars, boxVars, threadVars>>

SessionNext == StartMap \/ StartLayer \/ PlaceLabel \/ EndLayer \/ EndMap


-----------------------------------------------------------------------------
(* 32-bit arithmetic and pixels                                            *)
(*                                                                         *)
(* TLC's integers are signed and 32 bits wide, so a C unsigned is kept as  *)
(* the int with the same 32 bits (0xFFFFFFFF is -1): the conversions       *)
(* between int and unsigned are then the identity, and the unsigned        *)
(* operations are computed on 16-bit halves so that they wrap as C's do.   *)

\* the two 16-bit halves of a word, each in 0..65535
Hi16(w) == (w \div 65536) % 65536
Lo16(w) == w % 65536

\* the word with the given halves
Word(hi, lo) == (IF hi >= 32768 THEN hi - 65536 ELSE hi) * 65536 + lo

\* a + b on unsigned
UAdd(a, b) ==
    LET lo == Lo16(a) + Lo16(b)
        hi == Hi16(a) + Hi16(b) + (lo \div 65536)
    IN  Word(hi % 65536, lo % 65536)

\* a - b on unsigned
USub(a, b) ==
    LET lo == Lo16(a) - Lo16(b)
        hi == Hi16(a) - Hi16(b) + (lo \div 65536)
    IN  Word(hi % 65536, lo % 65536)

\* x * y modulo 65536, for x and y in 0..65535
MulMod16(x, y) == (x * (y % 256) + ((x * (y \div 256)) % 256) * 256) % 65536

\* a * b on unsigned
UMul(a, b) ==
    LET al == Lo16(a)
        bl == Lo16(b)
        p0 == al * (bl % 256)
        p1 == al * (bl \div 256)
        low == p0 + (p1 % 256) * 256
        hi == (low \div 65536) + (p1 \div 256)
              + MulMod16(Hi16(a), bl) + MulMod16(al, Hi16(b))
    IN  Word(hi % 65536, low % 65536)

\* a < b on unsigned
ULess(a, b) == IF (a < 0) = (b < 0) THEN a < b ELSE b < 0

\* a / b on unsigned, b # 0
UDiv(a, b) ==
    IF b < 0 THEN (IF ULess(a, b) THEN 0 ELSE 1)
    ELSE IF a >= 0 THEN a \div b
    ELSE LET m == (a \div 2) + 1073741824 + 1073741824
             q0 == m \div b
             r0 == m % b
             e == IF r0 >= b - r0 - (a % 2) THEN 1 ELSE 0
         IN  UAdd(UAdd(q0, q0), e)

\* a << k on unsigned, 0 <= k <= 24
UShl(a, k) == UMul(a, 2 ^ k)

\* a >> k on unsigned, 2 <= k <= 30
UShr(a, k) == IF a >= 0 THEN a \div (2 ^ k) ELSE (a \div (2 ^ k)) + 2 ^ (32 - k)

RECURSIVE Or16(_, _)
\* x | y, for x and y in 0..65535
Or16(x, y) ==
    IF x = 0 THEN y
    ELSE IF y = 0 THEN x
    ELSE ((x % 2) + (y % 2) - (x % 2) * (y % 2)) + 2 * Or16(x \div 2, y \div 2)

\* a | b on unsigned
BitOr(a, b) == Word(Or16(Hi16(a), Hi16(b)), Or16(Lo16(a), Lo16(b)))

\* (p >> k) & 0xff, k a multiple of 8
Byte(p, k) == (p \div (2 ^ k)) % 256

\* a pixel with the given channel bytes: red in the low byte, alpha on top
RGBA(r, g, b, a) == Word(a * 256 + b, g * 256 + r)

Red(p) == Byte(p, 0)
Green(p) == Byte(p, 8)
Blue(p) == Byte(p, 16)
Alpha(p) == Byte(p, 24)

\* the pixel positions of a w x h buffer
Coords(w, h) == (0..(w - 1)) \X (0..(h - 1))

InBuffer(w, h, x, y) == x >= 0 /\ x < w /\ y >= 0 /\ y < h

\* ImageData32::operator()(x, y) as a read; outside the buffer the read is
\* undefined, the model yields 0 and the caller records the fault
PixelAt(d, w, h, x, y) == IF InBuffer(w, h, x, y) THEN d[<<x, y>>] ELSE 0

\* ImageData32::operator()(x, y) as a write
StorePixel(d, w, h, x, y, p) ==
    IF InBuffer(w, h, x, y) THEN [d EXCEPT ![<<x, y>>] = p] ELSE d

\* an ImageData32 handed to set_rectangle: its pixels walk the palette
Palette ==
    << RGBA(255, 255, 255, 0), RGBA(64, 128, 255, 128),
       RGBA(255, 0, 0, 255),   RGBA(96, 64, 32, 1) >>

SourceImage(sw, sh, seed) ==
    [width |-> sw, height |-> sh,
     data |-> [c \in Coords(sw, sh) |->
                 Palette[((seed + c[1] + c[2] * sw) % Len(Palette)) + 1]]]

-----------------------------------------------------------------------------
(* Framebuffer: Image32                                                    *)

\* faulty variant: the bounds are compared as signed ints
checkBounds_signed(w, h, x, y) == x < w /\ y < h

\* Image32::checkBounds(unsigned x, unsigned y)
checkBounds(w, h, x, y) == ULess(x, w) /\ ULess(y, h)

\* Image32::setPixel
setPixel(d, w, h, x, y, rgba) ==
    IF checkBounds(w, h, x, y)
    THEN [data |-> StorePixel(d, w, h, x, y, rgba),
          fault |-> ~InBuffer(w, h, x, y)]
    ELSE [data |-> d, fault |-> FALSE]

\* faulty variant: the channels are divided by the alpha that is stored, a0 >> 8
blend_by_stored_alpha(rgba0, rgba1, a1) ==
    LET r1 == Byte(rgba1, 0)
        g1 == Byte(rgba1, 8)
        b1 == Byte(rgba1, 16)
        a0 == Byte(rgba0, 24)
        r0 == UMul(Byte(rgba0, 0), a0)
        g0 == UMul(Byte(rgba0, 8), a0)
        b0 == UMul(Byte(rgba0, 16), a0)
        a0s == UShr(USub(UShl(UAdd(a1, a0), 8), UMul(a0, a1)), 8)
        chan(c1, c0) ==
            IF a0s = 0 THEN 0
            ELSE UDiv(UAdd(UMul(USub(UShl(c1, 8), c0), a1), UShl(c0, 8)), a0s)
    IN  [pixel |-> BitOr(BitOr(BitOr(UShl(a0s, 24), UShl(chan(b1, b0), 16)),
                               UShl(chan(g1, g0), 8)),
                         chan(r1, r0)),
         divz |-> a0s = 0]

\* the blend of lines 88-104: rgba0 the destination pixel, a1 the source
\* alpha; every intermediate is an unsigned
blend(rgba0, rgba1, a1) ==
    LET r1 == Byte(rgba1, 0)
        g1 == Byte(rgba1, 8)
        b1 == Byte(rgba1, 16)
        a0 == Byte(rgba0, 24)
        r0 == UMul(Byte(rgba0, 0), a0)
        g0 == UMul(Byte(rgba0, 8), a0)
        b0 == UMul(Byte(rgba0, 16), a0)
        a0n == USub(UShl(UAdd(a1, a0), 8), UMul(a0, a1))
        chan(c1, c0) ==
            IF a0n = 0 THEN 0
            ELSE UDiv(UAdd(UMul(USub(UShl(c1, 8), c0), a1), UShl(c0, 8)), a0n)
        a0s == UShr(a0n, 8)
    IN  [pixel |-> BitOr(BitOr(BitOr(UShl(a0s, 24), UShl(chan(b1, b0), 16)),
                               UShl(chan(g1, g0), 8)),
                         chan(r1, r0)),
         divz |-> a0n = 0]

\* faulty variant: the coverage is ignored and the colour's own alpha byte is used
blendPixel_own_alpha(d, w, h, x, y, rgba1, t) ==
    IF checkBounds(w, h, x, y)
    THEN LET a1 == Byte(rgba1, 24)
             res == blend(PixelAt(d, w, h, x, y), rgba1, a1)
         IN  IF a1 = 0
             THEN [data |-> d, fault |-> ~InBuffer(w, h, x, y)]
             ELSE [data |-> StorePixel(d, w, h, x, y, res.pixel),
                   fault |-> ~InBuffer(w, h, x, y) \/ res.divz]
    ELSE [data |-> d, fault |-> FALSE]

\* Image32::blendPixel
blendPixel(d, w, h, x, y, rgba1, t) ==
    IF checkBounds(w, h, x, y)
    THEN LET a1 == t
             res == blend(PixelAt(d, w, h, x, y), rgba1, a1)
         IN  IF a1 = 0
             THEN [data |-> d, fault |-> ~InBuffer(w, h, x, y)]
             ELSE [data |-> StorePixel(d, w, h, x, y, res.pixel),
                   fault |-> ~InBuffer(w, h, x, y) \/ res.divz]
    ELSE [data |-> d, fault |-> FALSE]


Min(a, b) == IF a < b THEN a ELSE b
Max(a, b) == IF a > b THEN a ELSE b

\* Envelope<int>(x0, y0, x1, y1)
Envelope(x0, y0, x1, y1) ==
    [minx |-> Min(x0, x1), miny |-> Min(y0, y1),
     maxx |-> Max(x0, x1), maxy |-> Max(y0, y1)]

\* Envelope::intersects
Envelope_intersects(a, b) ==
    ~(b.minx > a.maxx \/ b.maxx < a.minx \/ b.miny > a.maxy \/ b.maxy < a.miny)

\* Envelope::intersect, of two envelopes that intersect
Envelope_intersect(a, b) ==
    Envelope(Max(a.minx, b.minx), Max(a.miny, b.miny),
             Min(a.maxx, b.maxx), Min(a.maxy, b.maxy))

\* the positions the two loops of set_rectangle and set_rectangle_alpha
\* visit: box.miny <= y < box.maxy, box.minx <= x < box.maxx
LoopRegion(w, h, x0, y0, src) ==
    LET ext0 == Envelope(0, 0, w, h)
        ext1 == Envelope(x0, y0, UAdd(x0, src.width), UAdd(y0, src.height))
    IN  IF Envelope_intersects(ext0, ext1)
        THEN LET box == Envelope_intersect(ext0, ext1)
             IN  (box.minx..(box.maxx - 1)) \X (box.miny..(box.maxy - 1))
        ELSE {}

\* a loop over region touched a position outside the destination or read
\* one outside the source
LoopFault(w, h, x0, y0, src, region) ==
    \E c \in region :
        \/ ~InBuffer(w, h, c[1], c[2])
        \/ ~InBuffer(src.width, src.height, c[1] - x0, c[2] - y0)

\* faulty variant: a source pixel is copied only when it is fully opaque
set_rectangle_opaque(d, w, h, x0, y0, src) ==
    LET region == LoopRegion(w, h, x0, y0, src)
        from(c) == PixelAt(src.data, src.width, src.height, c[1] - x0, c[2] - y0)
    IN  [data |-> [c \in Coords(w, h) |->
                     IF c \in region /\ Byte(from(c), 24) = 255
                     THEN from(c) ELSE d[c]],
         fault |-> LoopFault(w, h, x0, y0, src, region)]

\* Image32::set_rectangle
set_rectangle(d, w, h, x0, y0, src) ==
    LET region == LoopRegion(w, h, x0, y0, src)
        from(c) == PixelAt(src.data, src.width, src.height, c[1] - x0, c[2] - y0)
        \* data(x-x0, y-y0) & 0xff000000
        top(p) == Word(Byte(p, 24) * 256, 0)
    IN  [data |-> [c \in Coords(w, h) |->
                     IF c \in region /\ top(from(c)) # 0 THEN from(c) ELSE d[c]],
         fault |-> LoopFault(w, h, x0, y0, src, region)]

\* faulty variant: the combined alpha leaves out the product a0*a1
blend_rect_additive_alpha(rgba0, rgba1) ==
    LET a1 == Byte(rgba1, 24)
        r1 == Byte(rgba1, 0)
        g1 == Byte(rgba1, 8)
        b1 == Byte(rgba1, 16)
        a0 == Byte(rgba0, 24)
        r0 == UMul(Byte(rgba0, 0), a0)
        g0 == UMul(Byte(rgba0, 8), a0)
        b0 == UMul(Byte(rgba0, 16), a0)
        a0n == UShl(UAdd(a1, a0), 8)
        chan(c1, c0) ==
            IF a0n = 0 THEN 0
            ELSE UDiv(UAdd(UMul(USub(UShl(c1, 8), c0), a1), UShl(c0, 8)), a0n)
        a0s == UShr(a0n, 8)
    IN  [skip |-> a1 = 0,
         pixel |-> BitOr(BitOr(BitOr(UShl(a0s, 24), UShl(chan(b1, b0), 16)),
                               UShl(chan(g1, g0), 8)),
                         chan(r1, r0)),
         divz |-> a0n = 0]

\* the blend of lines 154-172, which set_rectangle_alpha spells out again
blend_rect(rgba0, rgba1) ==
    LET a1 == Byte(rgba1, 24)
        r1 == Byte(rgba1, 0)
        g1 == Byte(rgba1, 8)
        b1 == Byte(rgba1, 16)
        a0 == Byte(rgba0, 24)
        r0 == UMul(Byte(rgba0, 0), a0)
        g0 == UMul(Byte(rgba0, 8), a0)
        b0 == UMul(Byte(rgba0, 16), a0)
        a0n == USub(UShl(UAdd(a1, a0), 8), UMul(a0, a1))
        chan(c1, c0) ==
            IF a0n = 0 THEN 0
            ELSE UDiv(UAdd(UMul(USub(UShl(c1, 8), c0), a1), UShl(c0, 8)), a0n)
        a0s == UShr(a0n, 8)
    IN  [skip |-> a1 = 0,
         pixel |-> BitOr(BitOr(BitOr(UShl(a0s, 24), UShl(chan(b1, b0), 16)),
                               UShl(chan(g1, g0), 8)),
                         chan(r1, r0)),
         divz |-> a0n = 0]

\* faulty variant: the test that skips a source pixel of alpha 0 is missing
set_rectangle_alpha_no_skip(d, w, h, x0, y0, src) ==
    LET region == LoopRegion(w, h, x0, y0, src)
        from(c) == PixelAt(src.data, src.width, src.height, c[1] - x0, c[2] - y0)
        res(c) == blend_rect(d[c], from(c))
    IN  [data |-> [c \in Coords(w, h) |->
                     IF c \in region THEN res(c).pixel ELSE d[c]],
         fault |-> \/ LoopFault(w, h, x0, y0, src, region)
                   \/ \E c \in region \cap Coords(w, h) : res(c).divz]

\* faulty variant: the source is read at the destination position, without the offset
set_rectangle_alpha_no_offset(d, w, h, x0, y0, src) ==
    LET region == LoopRegion(w, h, x0, y0, src)
        from(c) == PixelAt(src.data, src.width, src.height, c[1], c[2])
        res(c) == blend_rect(d[c], from(c))
    IN  [data |-> [c \in Coords(w, h) |->
                     IF c \in region /\ ~res(c).skip THEN res(c).pixel ELSE d[c]],
         fault |-> \/ LoopFault(w, h, 0, 0, src, region)
                   \/ \E c \in region \cap Coords(w, h) :
                          ~res(c).skip /\ res(c).divz]

\* Image32::set_rectangle_alpha
set_rectangle_alpha(d, w, h, x0, y0, src) ==
    LET region == LoopRegion(w, h, x0, y0, src)
        from(c) == PixelAt(src.data, src.width, src.height, c[1] - x0, c[2] - y0)
        res(c) == blend_rect(d[c], from(c))
    IN  [data |-> [c \in Coords(w, h) |->
                     IF c \in region /\ ~res(c).skip THEN res(c).pixel ELSE d[c]],
         fault |-> \/ LoopFault(w, h, x0, y0, src, region)
                   \/ \E c \in region \cap Coords(w, h) :
                          ~res(c).skip /\ res(c).divz]

-----------------------------------------------------------------------------
(* The framebuffer's calls                                                 *)

\* coordinates handed to the calls: inside, just outside, far outside
CallCoords == {-2147483647 - 1, -1} \cup (0..MaxDim)

\* colours handed to setPixel and blendPixel
CallColours == {RGBA(255, 0, 0, 255), RGBA(10, 100, 200, 0)}

\* coverages handed to blendPixel
CallCoverages == {0, 128, 255}

\* offsets handed to set_rectangle and set_rectangle_alpha: from fully left
\* of (above) the framebuffer to fully right of (below) it
CallOffsets == (0 - MaxDim)..MaxDim

\* a framebuffer filled with one pixel, as set_background leaves it
Filled(w, h, p) == [c \in Coords(w, h) |-> p]

Backgrounds == {0, RGBA(0, 0, 0, 255), RGBA(200, 100, 50, 128)}

\* Image32::Image32: every pixel is 0
ImageInit ==
    /\ width_ \in 1..MaxDim
    /\ height_ \in 1..MaxDim
    /\ data_ = Filled(width_, height_, 0)
    /\ call = NoCall
    /\ old_data = data_
    /\ fault = FALSE
    /\ nops = 0

\* a framebuffer some layers were already drawn on: a background, or the
\* pixels setPixel left
ImageDrawn ==
    /\ width_ \in 1..MaxDim
    /\ height_ \in 1..MaxDim
    /\ \/ \E bg \in Backgrounds : data_ = Filled(width_, height_, bg)
       \/ \E seed \in 0..1 : data_ = SourceImage(width_, height_, seed + 1).data
    /\ call = NoCall
    /\ old_data = data_
    /\ fault = FALSE
    /\ nops = 0

\* the effect of a call that returned res on the framebuffer's variables
Returned(res, c) ==
    /\ data_' = res.data
    /\ fault' = (fault \/ res.fault)
    /\ old_data' = data_
    /\ call' = c
    /\ nops' = nops + 1
    /\ UNCHANGED <<width_, height_>>

SetPixel ==
    \E x \in CallCoords, y \in CallCoords, rgba \in CallColours :
        /\ call = NoCall
        /\ Returned(setPixel(data_, width_, height_, x, y, rgba),
                    [NoCall EXCEPT !.op = "setPixel", !.x = x, !.y = y, !.rgba = rgba])
        /\ UNCHANGED <<sessionVars, scaleVars, boxVars, threadVars>>

BlendPixel ==
    \E x \in CallCoords, y \in CallCoords, rgba1 \in CallColours, t \in CallCoverages :
        /\ call = NoCall
        /\ Returned(blendPixel(data_, width_, height_, x, y, rgba1, t),
                    [NoCall EXCEPT !.op = "blendPixel", !.x = x, !.y = y,
                                   !.rgba = rgba1, !.t = t])
        /\ UNCHANGED <<sessionVars, scaleVars, boxVars, threadVars>>

SetRectangle ==
    \E x0 \in CallOffsets, y0 \in CallOffsets,
       sw \in 1..MaxDim, sh \in 1..MaxDim, seed \in 0..1 :
        /\ call = NoCall
        /\ LET src == SourceImage(sw, sh, seed)
           IN  Returned(set_rectangle(data_, width_, height_, x0, y0, src),
                        [NoCall EXCEPT !.op = "set_rectangle", !.x = x0, !.y = y0,
                                       !.src = src])
        /\ UNCHANGED <<sessionVars, scaleVars, boxVars, threadVars>>

SetRectangleAlpha ==
    \E x0 \in CallOffsets, y0 \in CallOffsets,
       sw \in 1..MaxDim, sh \in 1..MaxDim, seed \in 0..1 :
        /\ call = NoCall
        /\ LET src == SourceImage(sw, sh, seed)
           IN  Returned(set_rectangle_alpha(data_, width_, height_, x0, y0, src),
                        [NoCall EXCEPT !.op = "set_rectangle_alpha", !.x = x0,
                                       !.y = y0, !.src = src])
        /\ UNCHANGED <<sessionVars, scaleVars, boxVars, threadVars>>

\* the caller goes on to its next call
NextCall ==
    /\ call # NoCall
    /\ nops < MaxOps
    /\ call' = NoCall
    /\ old_data' = data_
    /\ UNCHANGED <<width_, height_, data_, fault, nops>>
    /\ UNCHANGED <<sessionVars, scaleVars, boxVars, threadVars>>

\* sampled channel levels: the ends, the middle, and every LevelStep-th
Levels == {k * LevelStep : k \in 0..(255 \div LevelStep)} \cup {1, 127, 128, 255}

\* red, green and blue of the sampled destination and source colours
Triples == {<<0, 0, 0>>, <<255, 0, 0>>, <<10, 100, 200>>}

\* a framebuffer filled with a background of any sampled alpha
BlendInit ==
    /\ width_ \in 1..MaxDim
    /\ height_ \in 1..MaxDim
    /\ \E a0 \in Levels, c \in Triples :
           data_ = Filled(width_, height_, RGBA(c[1], c[2], c[3], a0))
    /\ call = NoCall
    /\ old_data = data_
    /\ fault = FALSE
    /\ nops = 0

\* blendPixel with any sampled coverage; the colour's own alpha byte varies
\* with the colour
BlendPixelLevels ==
    \E x \in CallCoords, y \in CallCoords, c \in Triples, t \in Levels :
        /\ call = NoCall
        /\ LET rgba1 == RGBA(c[1], c[2], c[3], (c[2] + 255) % 256)
           IN  Returned(blendPixel(data_, width_, height_, x, y, rgba1, t),
                        [NoCall EXCEPT !.op = "blendPixel", !.x = x, !.y = y,
                                       !.rgba = rgba1, !.t = t])
        /\ UNCHANGED <<sessionVars, scaleVars, boxVars, threadVars>>

\* set_rectangle_alpha placing one pixel of any sampled colour and alpha
\* inside the framebuffer
SetRectangleAlphaLevels ==
    \E x0 \in 0..(width_ - 1), y0 \in 0..(height_ - 1),
       c \in Triples, a1 \in Levels :
        /\ call = NoCall
        /\ LET src == [width |-> 1, height |-> 1,
                       data |-> Filled(1, 1, RGBA(c[1], c[2], c[3], a1))]
           IN  Returned(set_rectangle_alpha(data_, width_, height_, x0, y0, src),
                        [NoCall EXCEPT !.op = "set_rectangle_alpha", !.x = x0,
                                       !.y = y0, !.rgba = src.data[<<0, 0>>],
                                       !.t = a1, !.src = src])
        /\ UNCHANGED <<sessionVars, scaleVars, boxVars, threadVars>>

BlendNext == BlendPixelLevels \/ SetRectangleAlphaLevels

PixelNext == SetPixel \/ BlendPixel \/ NextCall

RectNext == SetRectangle \/ SetRectangleAlpha \/ BlendPixel

-----------------------------------------------------------------------------
(* Resampling: image_util.hpp.  A buffer is a record of its width, its     *)
(* height and its pixels; the C int arithmetic of the resamplers stays far *)
(* inside 32 bits for the buffers explored, the unsigned weights wrap.     *)

\* the debug build draws a border on every scale_image result
MAPNIK_DEBUG == FALSE

\* C integer division and remainder, truncating toward zero (b > 0)
CDiv(a, b) == IF a >= 0 THEN a \div b ELSE 0 - ((0 - a) \div b)

CMod(a, b) == a - b * CDiv(a, b)

\* rint of the fraction p / q (q > 0): to nearest, ties to even
rint(p, q) ==
    LET fl == p \div q
        rem == p - fl * q
    IN  IF 2 * rem < q THEN fl
        ELSE IF 2 * rem > q THEN fl + 1
        ELSE IF fl % 2 = 0 THEN fl ELSE fl + 1

Buffer(w, h, px) == [width |-> w, height |-> h, data |-> [c \in Coords(w, h) |-> px]]

InImage(img, x, y) == <<x, y>> \in Coords(img.width, img.height)

\* img(x,y) as an rvalue; a read outside the buffer yields whatever is there
ReadPixel(img, x, y, garbage) ==
    IF InImage(img, x, y) THEN img.data[<<x, y>>] ELSE garbage

\* img(x,y) = px; a write outside the buffer is reported by the caller
WritePixel(img, x, y, px) ==
    IF InImage(img, x, y) THEN [img EXCEPT !.data[<<x, y>>] = px] ELSE img

getRow(img, y, garbage) == [x \in 0..(img.width - 1) |-> ReadPixel(img, x, y, garbage)]

setRow(img, y, row, size) ==
    [img EXCEPT !.data = [c \in Coords(img.width, img.height) |->
        IF c[2] = y /\ c[1] < size /\ c[1] \in DOMAIN row THEN row[c[1]] ELSE @[c]]]

add_border(image) ==
    [image EXCEPT !.data = [c \in Coords(image.width, image.height) |->
        IF c[1] = image.width - 1 THEN Word(65535, 0)
        ELSE IF c[1] = 0 THEN Word(65280, 65535)
        ELSE IF c[2] = image.height - 1 THEN Word(65280, 65280)
        ELSE IF c[2] = 0 THEN Word(65280, 255)
        ELSE @[c]]]

\* faulty variant of the column loop of scale_image: the carry is taken one
\* step late
RECURSIVE scale_image_columns_late_carry(_, _, _, _, _)
scale_image_columns_late_carry(st, x, source_, g, garbage) ==
    IF x >= g.target_width THEN st
    ELSE LET copied == [st EXCEPT
                 !.target = WritePixel(@, x, st.y,
                                ReadPixel(source_, st.xs, st.ys, garbage)),
                 !.fault = @ \/ ~InImage(source_, st.xs, st.ys)]
             e == st.err_x + g.fract_part_x
         IN  scale_image_columns_late_carry(
                 IF e > g.target_width
                 THEN [copied EXCEPT !.xs = @ + g.int_part_x + 1,
                                     !.err_x = e - g.target_width]
                 ELSE [copied EXCEPT !.xs = @ + g.int_part_x, !.err_x = e],
                 x + 1, source_, g, garbage)

\* the column loop of scale_image for one target row
RECURSIVE scale_image_columns(_, _, _, _, _)
scale_image_columns(st, x, source_, g, garbage) ==
    IF x >= g.target_width THEN st
    ELSE LET copied == [st EXCEPT
                 !.target = WritePixel(@, x, st.y,
                                ReadPixel(source_, st.xs, st.ys, garbage)),
                 !.fault = @ \/ ~InImage(source_, st.xs, st.ys)]
             e == st.err_x + g.fract_part_x
         IN  scale_image_columns(
                 IF e >= g.target_width
                 THEN [copied EXCEPT !.xs = @ + g.int_part_x + 1,
                                     !.err_x = e - g.target_width]
                 ELSE [copied EXCEPT !.xs = @ + g.int_part_x, !.err_x = e],
                 x + 1, source_, g, garbage)

\* the row loop of scale_image
RECURSIVE scale_image_rows(_, _, _, _)
scale_image_rows(st, source_, g, garbage) ==
    IF st.y >= g.target_height THEN st
    ELSE LET row == IF st.ys = st.prev_y
                    THEN [st EXCEPT !.target =
                              setRow(@, st.y, getRow(@, st.y - 1, garbage),
                                     g.target_width)]
                    ELSE [scale_image_columns([st EXCEPT !.xs = 0], 0,
                                              source_, g, garbage)
                              EXCEPT !.prev_y = st.ys]
             e == row.err_y + g.fract_part_y
         IN  scale_image_rows(
                 IF e >= g.target_height
                 THEN [row EXCEPT !.y = @ + 1, !.ys = @ + g.int_part_y + 1,
                                  !.err_y = e - g.target_height]
                 ELSE [row EXCEPT !.y = @ + 1, !.ys = @ + g.int_part_y,
                                  !.err_y = e],
                 source_, g, garbage)

\* scale_image(target, source): the resampled target, and whether a pixel
\* outside the source was read
scale_image(target_, source_, garbage) ==
    IF \/ source_.width < 1 \/ source_.height < 1
       \/ target_.width < 1 \/ target_.height < 1
    THEN [target |-> target_, fault |-> FALSE]
    ELSE LET g == [target_width |-> target_.width,
                   target_height |-> target_.height,
                   int_part_y |-> CDiv(source_.height, target_.height),
                   fract_part_y |-> CMod(source_.height, target_.height),
                   int_part_x |-> CDiv(source_.width, target_.width),
                   fract_part_x |-> CMod(source_.width, target_.width)]
             done == scale_image_rows(
                         [y |-> 0, ys |-> 0, xs |-> 0, err_x |-> 0, err_y |-> 0,
                          prev_y |-> -1, target |-> target_, fault |-> FALSE],
                         source_, g, garbage)
         IN  [target |-> IF MAPNIK_DEBUG THEN add_border(done.target)
                         ELSE done.target,
              fault |-> done.fault]

\* offs_x and offs_y of the bilinear resamplers; the fractional offset is
\* off / 4, so (source - target - off/4 * 2 * source) / 2 is a number of
\* quarters
bilinear_offs(source_dim, target_dim, off) ==
    rint(2 * (source_dim - target_dim) - off * source_dim, 4)

\* along one axis: the two source indices and the two weights of target
\* index i
bilinear_axis(i, source_dim, target_dim, offs) ==
    LET raw == i * source_dim + offs
        s == CDiv(raw, target_dim)
        s1 == IF s + 1 >= source_dim THEN s ELSE s + 1
        prt == IF CDiv(source_dim, 2) < target_dim
               THEN CMod(raw, target_dim) ELSE CDiv(target_dim, 2)
    IN  [s |-> IF s < 0 THEN 0 ELSE s,
         s1 |-> IF s < 0 THEN 0 ELSE s1,
         prt |-> prt,
         prt1 |-> USub(target_dim, prt)]

\* one channel of the four neighbours a, b, c, d blended along x, then y
bilinear_channel(a, b, c, d, ax, ay, target_width, target_height) ==
    LET tw2 == CDiv(target_width, 2)
        th2 == CDiv(target_height, 2)
        mix(p, q, w, w1, half, dim) ==
            UDiv(UAdd(UAdd(UMul(q, w), UMul(p, w1)), half), dim)
        r == IF a # b THEN mix(a, b, ax.prt, ax.prt1, tw2, target_width) ELSE b
        s == IF c # d THEN mix(c, d, ax.prt, ax.prt1, tw2, target_width) ELSE d
    IN  IF r # s THEN mix(r, s, ay.prt, ay.prt1, th2, target_height) ELSE r

\* the four neighbours of target pixel (x,y), and whether one of them lies
\* outside the source
bilinear_neighbours(source_, ax, ay, garbage) ==
    [a |-> ReadPixel(source_, ax.s, ay.s, garbage),
     b |-> ReadPixel(source_, ax.s1, ay.s, garbage),
     c |-> ReadPixel(source_, ax.s, ay.s1, garbage),
     d |-> ReadPixel(source_, ax.s1, ay.s1, garbage),
     fault |-> \/ ~InImage(source_, ax.s, ay.s) \/ ~InImage(source_, ax.s1, ay.s)
               \/ ~InImage(source_, ax.s, ay.s1) \/ ~InImage(source_, ax.s1, ay.s1)]

\* the pixel scale_image_bilinear stores: every byte blended on its own
bilinear_pixel(n, ax, ay, target_width, target_height) ==
    LET ch(t) == bilinear_channel(Byte(n.a, t), Byte(n.b, t), Byte(n.c, t),
                                  Byte(n.d, t), ax, ay,
                                  target_width, target_height)
    IN  BitOr(BitOr(ch(0), UShl(ch(8), 8)),
              BitOr(UShl(ch(16), 16), UShl(ch(24), 24)))

\* the pixel scale_image_bilinear8 stores: the low byte blended, as opaque grey
bilinear8_pixel(n, ax, ay, target_width, target_height) ==
    LET r == bilinear_channel(Byte(n.a, 0), Byte(n.b, 0), Byte(n.c, 0),
                              Byte(n.d, 0), ax, ay,
                              target_width, target_height)
    IN  BitOr(BitOr(Word(65280, 0), UShl(r, 16)), BitOr(UShl(r, 8), r))

\* the rows copied when nothing is scaled or shifted
copy_rows(target_, source_, garbage) ==
    [target_ EXCEPT !.data = [c \in Coords(target_.width, target_.height) |->
        ReadPixel(source_, c[1], c[2], garbage)]]

\* the interpolating loops of either bilinear resampler
bilinear_loops(target_, source_, offs_x, offs_y, eight, garbage) ==
    LET ax(x) == bilinear_axis(x, source_.width, target_.width, offs_x)
        ay(y) == bilinear_axis(y, source_.height, target_.height, offs_y)
        n(c) == bilinear_neighbours(source_, ax(c[1]), ay(c[2]), garbage)
    IN  [target |-> [target_ EXCEPT !.data =
             [c \in Coords(target_.width, target_.height) |->
                 IF eight
                 THEN bilinear8_pixel(n(c), ax(c[1]), ay(c[2]),
                                      target_.width, target_.height)
                 ELSE bilinear_pixel(n(c), ax(c[1]), ay(c[2]),
                                     target_.width, target_.height)]],
         fault |-> \E c \in Coords(target_.width, target_.height) : n(c).fault]

scale_image_bilinear(target_, source_, x_off, y_off, garbage) ==
    IF \/ source_.width < 1 \/ source_.height < 1
       \/ target_.width < 1 \/ target_.height < 1
    THEN [target |-> target_, fault |-> FALSE]
    ELSE LET offs_x == bilinear_offs(source_.width, target_.width, x_off)
             offs_y == bilinear_offs(source_.height, target_.height, y_off)
         IN  IF /\ target_.height = source_.height
                /\ target_.width = source_.width
                /\ offs_x = 0 /\ offs_y = 0
             THEN [target |-> copy_rows(target_, source_, garbage),
                   fault |-> FALSE]
             ELSE bilinear_loops(target_, source_, offs_x, offs_y, FALSE,
                                 garbage)

\* scale_image_bilinear8 without its copying branch
scale_image_bilinear8_always_blends(target_, source_, x_off, y_off, garbage) ==
    IF \/ source_.width < 1 \/ source_.height < 1
       \/ target_.width < 1 \/ target_.height < 1
    THEN [target |-> target_, fault |-> FALSE]
    ELSE bilinear_loops(target_, source_,
                        bilinear_offs(source_.width, target_.width, x_off),
                        bilinear_offs(source_.height, target_.height, y_off),
                        TRUE, garbage)

scale_image_bilinear8(target_, source_, x_off, y_off, garbage) ==
    IF \/ source_.width < 1 \/ source_.height < 1
       \/ target_.width < 1 \/ target_.height < 1
    THEN [target |-> target_, fault |-> FALSE]
    ELSE LET offs_x == bilinear_offs(source_.width, target_.width, x_off)
             offs_y == bilinear_offs(source_.height, target_.height, y_off)
         IN  IF /\ target_.height = source_.height
                /\ target_.width = source_.width
                /\ offs_x = 0 /\ offs_y = 0
             THEN [target |-> copy_rows(target_, source_, garbage),
                   fault |-> FALSE]
             ELSE bilinear_loops(target_, source_, offs_x, offs_y, TRUE,
                                 garbage)

\* ---- the calls explored

ScaleDims == 0..MaxScaleDim

\* fractional offsets, in quarters
ScaleOffsets == (0 - MaxOffset)..MaxOffset

\* what a read outside a buffer may find
Garbage == {0, RGBA(255, 255, 255, 255)}

\* the contents of a source: a gradient with a different pixel at every
\* place, or a checkerboard of extreme channel values
PatternPixel(c, seed) ==
    IF seed = 0
    THEN RGBA(40 * c[1] + 7, 40 * c[2] + 9, (13 * (c[1] + 6 * c[2])) % 256,
              255 - 30 * c[1] - 5 * c[2])
    ELSE RGBA(255 * ((c[1] + c[2]) % 2), 255 * (c[1] % 2), 0,
              255 * ((c[2] + 1) % 2))

Pattern(w, h, seed) ==
    [width |-> w, height |-> h,
     data |-> [c \in Coords(w, h) |-> PatternPixel(c, seed)]]

\* a target holds one colour no source holds before it is resampled into
Untouched == RGBA(1, 2, 3, 4)

ScaleInit ==
    /\ \E sw \in ScaleDims, sh \in ScaleDims, seed \in 0..1 :
           source = Pattern(sw, sh, seed)
    /\ \E tw \in ScaleDims, th \in ScaleDims :
           target = Buffer(tw, th, Untouched)
    /\ old_target = target
    /\ scaled = NotScaled
    /\ scale_fault = FALSE

Resampled(res, c) ==
    /\ target' = res.target
    /\ scale_fault' = res.fault
    /\ old_target' = target
    /\ scaled' = c
    /\ UNCHANGED source

ScaleImage ==
    \E garbage \in Garbage :
        /\ scaled = NotScaled
        /\ Resampled(scale_image(target, source, garbage),
                     [NotScaled EXCEPT !.op = "scale_image"])
        /\ UNCHANGED <<sessionVars, imageVars, boxVars, threadVars>>

\* the two offsets are explored in opposite directions
ScaleImageBilinear ==
    \E off \in ScaleOffsets, garbage \in Garbage :
        /\ scaled = NotScaled
        /\ Resampled(scale_image_bilinear(target, source, off, 0 - off, garbage),
                     [op |-> "scale_image_bilinear", x_off |-> off,
                      y_off |-> 0 - off])
        /\ UNCHANGED <<sessionVars, imageVars, boxVars, threadVars>>

ScaleImageBilinear8 ==
    \E off \in ScaleOffsets, garbage \in Garbage :
        /\ scaled = NotScaled
        /\ Resampled(scale_image_bilinear8(target, source, off, 0 - off, garbage),
                     [op |-> "scale_image_bilinear8", x_off |-> off,
                      y_off |-> 0 - off])
        /\ UNCHANGED <<sessionVars, imageVars, boxVars, threadVars>>

ScaleNext == ScaleImage \/ ScaleImageBilinear \/ ScaleImageBilinear8

-----------------------------------------------------------------------------
(* Box reprojection: proj_transform.cpp.  Coordinates are exact: a box is  *)
(* kept in units of 1 / den, so that the points envelope_points places at  *)
(* width / steps apart are integers in units of 1 / steps.  The geodesy    *)
(* library is any map of a small family of linear maps, which commute with *)
(* the change of unit and with the degree/radian scaling of lines 58-62    *)
(* and 74-78, and it rejects the points of a half plane.                   *)

Coord(x, y) == [x |-> x, y |-> y]

\* pj_transform(source, dest): the point it yields
pj_forward(kind, p) ==
    CASE kind = "quarter_turn" -> Coord(0 - p.y, p.x)
      [] kind = "shear" -> Coord(p.x + p.y, p.y)

\* pj_transform(dest, source): the inverse map
pj_backward(kind, p) ==
    CASE kind = "quarter_turn" -> Coord(p.y, 0 - p.x)
      [] kind = "shear" -> Coord(p.x - p.y, p.y)

\* pj_transform(...) != 0: the point is outside the domain of the projection
pj_rejects(rejects, p) ==
    CASE rejects = "none" -> FALSE
      [] rejects = "west" -> p.x < 0
      [] rejects = "east" -> p.x > 0
      [] rejects = "north" -> p.y > 0

\* proj_transform::forward(x, y, z) and backward(x, y, z) for references that
\* differ: whether the point was accepted, and the point afterwards
transform_point(tr, dir, p) ==
    IF pj_rejects(tr.rejects, p)
    THEN [ok |-> FALSE, p |-> p]
    ELSE [ok |-> TRUE,
          p |-> IF dir = "forward" THEN pj_forward(tr.kind, p)
                ELSE pj_backward(tr.kind, p)]

\* faulty variant: the quotient is truncated instead of rounded up
envelope_steps_truncated(points) ==
    (IF points <= 4 THEN 0 ELSE (points - 4) \div 4) + 1

\* steps of envelope_points: ceil((points - 4) / 4.0) + 1, or 1
envelope_steps(points) ==
    (IF points <= 4 THEN 0 ELSE (points - 4 + 3) \div 4) + 1

\* envelope_points: the coords pushed, in the order pushed, in units of
\* 1 / steps of the box's unit
envelope_points(e, points) ==
    LET steps == envelope_steps(points)
        width == e.maxx - e.minx
        height == e.maxy - e.miny
        along_x == [k \in 1..(2 * (steps + 1)) |->
                      LET i == (k - 1) \div 2
                      IN  Coord(steps * e.minx + i * width,
                                IF k % 2 = 1 THEN steps * e.miny
                                ELSE steps * e.maxy)]
        along_y == [k \in 1..(2 * (steps - 1)) |->
                      LET i == ((k - 1) \div 2) + 1
                      IN  Coord(IF k % 2 = 1 THEN steps * e.minx
                                ELSE steps * e.maxx,
                                steps * e.miny + i * height)]
    IN  [steps |-> steps, coords |-> along_x \o along_y]

SetMin(S) == CHOOSE m \in S : \A e \in S : m <= e

SetMax(S) == CHOOSE m \in S : \A e \in S : m >= e

\* the orders in which a build may evaluate the two arguments *it and *(++it)
Orders == {"left_to_right", "right_to_left"}

\* calculate_bbox: env(*it, *(++it)) reads the first point before or after
\* the increment, and the loop then expands from the second point on
calculate_bbox(points, order) ==
    LET first == IF order = "left_to_right" THEN points[1] ELSE points[2]
        included == {first} \cup {points[k] : k \in 2..Len(points)}
    IN  [minx |-> SetMin({p.x : p \in included}),
         miny |-> SetMin({p.y : p \in included}),
         maxx |-> SetMax({p.x : p \in included}),
         maxy |-> SetMax({p.y : p \in included})]

\* box2d::center; it is used on boxes kept in half units, where the halving
\* is exact
box_center(b) == Coord((b.minx + b.maxx) \div 2, (b.miny + b.maxy) \div 2)

\* box2d::re_center, box2d::height(h), box2d::width(w) on a box in half
\* units: the box keeps its size and moves, then takes the height, then the
\* width, about its centre
re_center(b, c) ==
    LET w == b.maxx - b.minx
        h == b.maxy - b.miny
    IN  [minx |-> c.x - w \div 2, maxx |-> c.x + w \div 2,
         miny |-> c.y - h \div 2, maxy |-> c.y + h \div 2]

box_height(b, h) ==
    [b EXCEPT !.miny = box_center(b).y - h \div 2,
              !.maxy = box_center(b).y + h \div 2]

box_width(b, w) ==
    [b EXCEPT !.minx = box_center(b).x - w \div 2,
              !.maxx = box_center(b).x + w \div 2]

Doubled(b) ==
    [minx |-> 2 * b.minx, miny |-> 2 * b.miny,
     maxx |-> 2 * b.maxx, maxy |-> 2 * b.maxy]

Halved(b) ==
    [minx |-> b.minx \div 2, miny |-> b.miny \div 2,
     maxx |-> b.maxx \div 2, maxy |-> b.maxy \div 2]

\* the last three statements of forward and backward: env is re-centred on
\* result and given its height and width; everything in units of 1 / steps
resize_to(e, result, steps) ==
    LET in_steps == Doubled([minx |-> steps * e.minx, miny |-> steps * e.miny,
                           maxx |-> steps * e.maxx, maxy |-> steps * e.maxy])
        r == Doubled(result)
        moved == re_center(in_steps, box_center(r))
        sized == box_width(box_height(moved, r.maxy - r.miny), r.maxx - r.minx)
    IN  [minx |-> Halved(sized).minx, miny |-> Halved(sized).miny,
         maxx |-> Halved(sized).maxx, maxy |-> Halved(sized).maxy,
         den |-> steps]

\* faulty variant: a rejected point is skipped and the box is built from the
\* points that were accepted
transform_box_skips_rejected(tr, e, points, dir, order) ==
    IF tr.kind = "equal"
    THEN [ret |-> TRUE, env |-> e, coords |-> <<>>, steps |-> 1,
          transformed |-> <<>>]
    ELSE LET pts == envelope_points(e, points)
             out == [k \in 1..Len(pts.coords) |->
                        transform_point(tr, dir, pts.coords[k])]
             kept == [k \in 1..Len(pts.coords) |->
                        IF out[k].ok THEN out[k].p ELSE out[1].p]
         IN  [ret |-> TRUE,
              env |-> resize_to(e, calculate_bbox(kept, order), pts.steps),
              coords |-> pts.coords, steps |-> pts.steps,
              transformed |-> pts.coords]

\* proj_transform::forward(env, points) and backward(env, points): the value
\* returned, the caller's box afterwards, the coords sampled and the coords
\* handed to the geodesy library, in the order of the calls
transform_box(tr, e, points, dir, order) ==
    IF tr.kind = "equal"
    THEN [ret |-> TRUE, env |-> e, coords |-> <<>>, steps |-> 1,
          transformed |-> <<>>]
    ELSE LET pts == envelope_points(e, points)
             out == [k \in 1..Len(pts.coords) |->
                        transform_point(tr, dir, pts.coords[k])]
             failed == {k \in 1..Len(pts.coords) : ~out[k].ok}
         IN  IF failed # {}
             THEN [ret |-> FALSE, env |-> e, coords |-> pts.coords,
                   steps |-> pts.steps,
                   transformed |-> SubSeq(pts.coords, 1, SetMin(failed))]
             ELSE [ret |-> TRUE,
                   env |-> resize_to(e,
                               calculate_bbox([k \in 1..Len(out) |-> out[k].p],
                                              order),
                               pts.steps),
                   coords |-> pts.coords, steps |-> pts.steps,
                   transformed |-> pts.coords]

\* ---- the calls explored

BoxCoords == (0 - MaxCoord)..MaxCoord

\* the points asked for: none, a negative number, and up to MaxPoints
SampleCounts == (0 - 1)..MaxPoints

Transforms ==
    {[kind |-> "equal", rejects |-> "none"]}
        \cup [kind : {"quarter_turn", "shear"},
              rejects : {"none", "west", "east", "north"}]

\* any proj_transform, and any box2d: box2d keeps min <= max
BoxInit ==
    /\ transform_ \in Transforms
    /\ \E x0 \in BoxCoords, x1 \in BoxCoords, y0 \in BoxCoords, y1 \in BoxCoords :
           /\ x0 <= x1
           /\ y0 <= y1
           /\ env = [minx |-> x0, miny |-> y0, maxx |-> x1, maxy |-> y1,
                     den |-> 1]
    /\ boxed = NotBoxed

BoxReturned(res, dir, points, order) ==
    /\ env' = res.env
    /\ boxed' = [op |-> dir, points |-> points, order |-> order,
                 ret |-> res.ret, before |-> env, coords |-> res.coords,
                 steps |-> res.steps, transformed |-> res.transformed]
    /\ UNCHANGED transform_

ForwardBox ==
    \E points \in SampleCounts, order \in Orders :
        /\ boxed = NotBoxed
        /\ BoxReturned(transform_box(transform_, env, points, "forward", order),
                       "forward", points, order)
        /\ UNCHANGED <<sessionVars, imageVars, scaleVars, threadVars>>

BackwardBox ==
    \E points \in SampleCounts, order \in Orders :
        /\ boxed = NotBoxed
        /\ BoxReturned(transform_box(transform_, env, points, "backward", order),
                       "backward", points, order)
        /\ UNCHANGED <<sessionVars, imageVars, scaleVars, threadVars>>

BoxNext == ForwardBox \/ BackwardBox

-----------------------------------------------------------------------------
(* Threads calling forward/backward(x, y, z)   (proj_transform.cpp 53-111)  *)

Threads == 1..MaxThreads

\* the first version of the geodesy library whose transform is reentrant
PJ_REENTRANT == 480

\* a library version below it and the first reentrant one
Versions == {PJ_REENTRANT - 10, PJ_REENTRANT}

Builds == [MAPNIK_THREADSAFE : BOOLEAN, PJ_VERSION : Versions]

\* #if defined(MAPNIK_THREADSAFE) && PJ_VERSION < 480
Locking == build.MAPNIK_THREADSAFE /\ build.PJ_VERSION < PJ_REENTRANT

\* the proj_transform instances: the flags the constructor computes; two equal
\* references are both geographic or both not
Instances ==
    {i \in [is_source_equal_dest_ : BOOLEAN, is_source_longlat_ : BOOLEAN,
            is_dest_longlat_ : BOOLEAN] :
        i.is_source_equal_dest_ => (i.is_source_longlat_ = i.is_dest_longlat_)}

NotCalling == [at |-> "idle", to_deg |-> FALSE]

NotReturned == [ret |-> "none", unit |-> "none"]

\* faulty variant: the lock is let go only when the call returns true
scoped_lock_kept_on_failure(m, t, ret) ==
    IF m = t /\ ret = "true" THEN NoThread ELSE m

\* ~scoped_lock() when the call's scope is left, by either return: the
\* holder of the mutex afterwards
scoped_lock_destructor(m, t, ret) ==
    IF m = t THEN NoThread ELSE m

ThreadInit ==
    /\ build \in Builds
    /\ mutex_ = NoThread
    /\ pc = [t \in Threads |-> NotCalling]
    /\ outcome = [t \in Threads |-> NotReturned]
    /\ ncalls = 0

\* the start of forward and backward, up to the #if: the return for equal
\* references and the scaling of geographic input to radians
Enter(t, equal, in_longlat, out_longlat) ==
    /\ pc[t].at = "idle"
    /\ ncalls < MaxCalls
    /\ ncalls' = ncalls + 1
    /\ IF equal
       THEN /\ outcome' = [outcome EXCEPT ![t] =
                              [ret |-> "true",
                               unit |-> IF in_longlat THEN "deg" ELSE "m"]]
            /\ pc' = pc
       ELSE /\ outcome' = [outcome EXCEPT ![t] =
                              [ret |-> "none",
                               unit |-> IF in_longlat THEN "rad" ELSE "m"]]
            /\ pc' = [pc EXCEPT ![t] =
                         [at |-> "lock", to_deg |-> out_longlat]]
    /\ UNCHANGED <<mutex_, build>>

Forward(t) ==
    /\ \E i \in Instances :
           Enter(t, i.is_source_equal_dest_, i.is_source_longlat_,
                 i.is_dest_longlat_)
    /\ UNCHANGED <<sessionVars, imageVars, scaleVars, boxVars>>

Backward(t) ==
    /\ \E i \in Instances :
           Enter(t, i.is_source_equal_dest_, i.is_dest_longlat_,
                 i.is_source_longlat_)
    /\ UNCHANGED <<sessionVars, imageVars, scaleVars, boxVars>>

\* mutex::scoped_lock lock(projection::mutex_), where the build has it: the
\* thread blocks until the mutex is free
Lock(t) ==
    /\ pc[t].at = "lock"
    /\ IF Locking
       THEN /\ mutex_ = NoThread
            /\ mutex_' = t
       ELSE UNCHANGED mutex_
    /\ pc' = [pc EXCEPT ![t].at = "pj_transform"]
    /\ UNCHANGED <<outcome, ncalls, build>>
    /\ UNCHANGED <<sessionVars, imageVars, scaleVars, boxVars>>

\* pj_transform(...) returns: zero, with the point in the unit of the
\* target reference, or non-zero
PjTransform(t) ==
    /\ pc[t].at = "pj_transform"
    /\ \E accepted \in BOOLEAN :
           outcome' = [outcome EXCEPT ![t] =
                          IF accepted
                          THEN [ret |-> "true",
                                unit |-> IF pc[t].to_deg THEN "rad" ELSE "m"]
                          ELSE [ret |-> "false", unit |-> outcome[t].unit]]
    /\ pc' = [pc EXCEPT ![t].at = "return"]
    /\ UNCHANGED <<mutex_, ncalls, build>>
    /\ UNCHANGED <<sessionVars, imageVars, scaleVars, boxVars>>

\* return false, or the scaling of geographic output to degrees and return
\* true; either way the scope of the lock is left
Return(t) ==
    /\ pc[t].at = "return"
    /\ outcome' = [outcome EXCEPT ![t].unit =
                      IF outcome[t].ret = "true" /\ pc[t].to_deg THEN "deg"
                      ELSE outcome[t].unit]
    /\ mutex_' = scoped_lock_destructor(mutex_, t, outcome[t].ret)
    /\ pc' = [pc EXCEPT ![t] = NotCalling]
    /\ UNCHANGED <<ncalls, build>>
    /\ UNCHANGED <<sessionVars, imageVars, scaleVars, boxVars>>

ThreadNext ==
    \E t \in Threads :
        Forward(t) \/ Backward(t) \/ Lock(t) \/ PjTransform(t) \/ Return(t)

\* every thread that can take a step of its call eventually takes one: the
\* library call returns, and a thread for which the mutex stays free gets it
ThreadFairness ==
    \A t \in Threads :
        WF_vars(Lock(t)) /\ WF_vars(PjTransform(t)) /\ WF_vars(Return(t))

-----------------------------------------------------------------------------
(* Specifications                                                          *)

InitSession == SessionInit /\ ImageIdle /\ ScaleIdle /\ BoxIdle /\ ThreadsIdle

SpecSession == InitSession /\ [][SessionNext]_vars

InitPixel == SessionIdle /\ ImageInit /\ ScaleIdle /\ BoxIdle /\ ThreadsIdle

SpecPixel == InitPixel /\ [][PixelNext]_vars

InitRect == SessionIdle /\ ImageDrawn /\ ScaleIdle /\ BoxIdle /\ ThreadsIdle

SpecRect == InitRect /\ [][RectNext]_vars

InitBlend == SessionIdle /\ BlendInit /\ ScaleIdle /\ BoxIdle /\ ThreadsIdle

SpecBlend == InitBlend /\ [][BlendNext]_vars

InitScale == SessionIdle /\ ImageIdle /\ ScaleInit /\ BoxIdle /\ ThreadsIdle

SpecScale == InitScale /\ [][ScaleNext]_vars

InitBox == SessionIdle /\ ImageIdle /\ ScaleIdle /\ BoxInit /\ ThreadsIdle

SpecBox == InitBox /\ [][BoxNext]_vars

InitThreads == SessionIdle /\ ImageIdle /\ ScaleIdle /\ BoxIdle /\ ThreadInit

SpecThreads == InitThreads /\ [][ThreadNext]_vars /\ ThreadFairness

-----------------------------------------------------------------------------
(* Claims about the render session                                         *)

AfterStartLayer == hook.op = "start_layer_processing"

\* C1: immediately after start_layer_processing(L) the detector's placed-box
\* set is empty if L's clear_label_cache flag is set, and otherwise is
\* exactly the set it held before the call, so every box placed since the
\* last clearing layer began is still an obstacle.
C1_StartLayerClearsOrKeeps ==
    AfterStartLayer =>
        /\ IF hook.clear THEN detector_ = {} ELSE detector_ = hook.before
        /\ \A b \in sinceClear : b \in obstacles(detector_, b)

C1_Witness ==
    /\ AfterStartLayer
    /\ ~hook.clear
    /\ layerNo >= 3
    /\ Cardinality(sinceClear) >= 2
    /\ prevPlaced # {}
    /\ prevPlaced # sinceClear

\* C2 as stated: the flag of layer N decides what a query at the start of
\* layer N+1 sees: flag set, no obstacles; flag unset, layer N's boxes are
\* still obstacles.
C2_Original ==
    (AfterStartLayer /\ layerNo >= 2) =>
        /\ prevClear => \A q \in LabelBoxes : obstacles(detector_, q) = {}
        /\ ~prevClear => \A b \in prevPlaced : b \in obstacles(detector_, b)

\* C2 amended: the flag of layer N+1 decides what a query right after
\* start_layer_processing of layer N+1 sees: flag set, no obstacles whatever
\* layer N placed; flag unset, the boxes placed during layer N are still
\* reported as obstacles.
C2_NextLayerFlagDecides ==
    (AfterStartLayer /\ layerNo >= 2) =>
        /\ curClear => \A q \in LabelBoxes : obstacles(detector_, q) = {}
        /\ ~curClear => \A b \in prevPlaced : b \in obstacles(detector_, b)

C2_Witness ==
    /\ AfterStartLayer
    /\ layerNo >= 2
    /\ prevClear
    /\ ~curClear
    /\ prevPlaced # {}

-----------------------------------------------------------------------------
(* Claims about the framebuffer                                            *)

CallInBounds == InBuffer(width_, height_, call.x, call.y)

\* the destination pixel of the last call, before and after it
OldPixel == old_data[<<call.x, call.y>>]
NewPixel == data_[<<call.x, call.y>>]

\* the combined alpha of blendPixel before its >> 8, in unbounded integers
CombinedAlpha(a0, a1) == (a1 + a0) * 256 - a0 * a1

\* the numerator of a blended channel, in unbounded integers
ChannelSum(c0, c1, a0, a1) == (c1 * 256 - c0 * a0) * a1 + c0 * a0 * 256

BlendedInBounds == call.op = "blendPixel" /\ CallInBounds /\ call.t \in 1..255

\* C3 as stated: the stored alpha is a' = (((a1+a0)<<8) - a0*a1) >> 8 and
\* every stored colour channel is ((c1<<8 - c0*a0)*a1 + (c0*a0<<8)) / a'.
C3_Original ==
    BlendedInBounds =>
        LET a0 == Alpha(OldPixel)
            a1 == call.t
            a2 == CombinedAlpha(a0, a1) \div 256
        IN  /\ Alpha(NewPixel) = a2
            /\ Red(NewPixel) = ChannelSum(Red(OldPixel), Red(call.rgba), a0, a1) \div a2
            /\ Green(NewPixel) = ChannelSum(Green(OldPixel), Green(call.rgba), a0, a1) \div a2
            /\ Blue(NewPixel) = ChannelSum(Blue(OldPixel), Blue(call.rgba), a0, a1) \div a2

\* C3 amended: for every in-bounds (x,y), destination pixel, source colour
\* and coverage a1 in 1..255, with A = ((a1+a0)<<8) - a0*a1, blendPixel
\* stores alpha A >> 8 and every colour channel as
\* ((c1<<8 - c0*a0)*a1 + (c0*a0<<8)) / A, packed as (a', b', g', r'); the
\* source colour's own alpha byte plays no part.
C3_BlendFormula ==
    BlendedInBounds =>
        LET a0 == Alpha(OldPixel)
            a1 == call.t
            A == CombinedAlpha(a0, a1)
            r == ChannelSum(Red(OldPixel), Red(call.rgba), a0, a1) \div A
            g == ChannelSum(Green(OldPixel), Green(call.rgba), a0, a1) \div A
            b == ChannelSum(Blue(OldPixel), Blue(call.rgba), a0, a1) \div A
        IN  /\ A > 0
            /\ {r, g, b, A \div 256} \subseteq 0..255
            /\ NewPixel = RGBA(r, g, b, A \div 256)

C3_Witness ==
    /\ BlendedInBounds
    /\ call.t \in 2..254
    /\ Alpha(OldPixel) \in 2..254
    /\ Alpha(call.rgba) # call.t
    /\ Cardinality({Red(NewPixel), Green(NewPixel), Blue(NewPixel), Alpha(NewPixel)}) = 4
    /\ Blue(NewPixel) # Blue(OldPixel)

RedOnOpaqueBlack ==
    /\ call.op = "blendPixel"
    /\ CallInBounds
    /\ Red(call.rgba) = 255
    /\ Green(call.rgba) = 0
    /\ Blue(call.rgba) = 0
    /\ call.t = 128
    /\ OldPixel = RGBA(0, 0, 0, 255)

\* C4: blending pure red (r=255, g=0, b=0) with coverage 128 onto an opaque
\* black pixel (0xFF000000) always stores 0xFF00007F: alpha 255, blue 0,
\* green 0, red 127.
C4_RedOnOpaqueBlack ==
    RedOnOpaqueBlack =>
        /\ NewPixel = Word(65280, 127)
        /\ <<Alpha(NewPixel), Blue(NewPixel), Green(NewPixel), Red(NewPixel)>>
               = <<255, 0, 0, 127>>

C4_Witness == RedOnOpaqueBlack /\ Alpha(call.rgba) # 128 /\ width_ > 1 /\ call.x > 0

\* the clipped region of a rectangle call: the destination positions the
\* placed source covers
PlacedOver(c) ==
    InBuffer(call.src.width, call.src.height, c[1] - call.x, c[2] - call.y)

\* the source pixel placed over destination position c
PlacedPixel(c) == call.src.data[<<c[1] - call.x, c[2] - call.y>>]

ClippedRegion == {c \in Coords(width_, height_) : PlacedOver(c)}

\* C5: blendPixel with coverage 0 leaves every pixel of the framebuffer
\* bit-exact, for any coordinates and source colour; set_rectangle_alpha
\* leaves untouched every destination pixel whose source pixel has alpha 0.
C5_ZeroAlphaIsNoOp ==
    /\ (call.op = "blendPixel" /\ call.t = 0) => data_ = old_data
    /\ call.op = "set_rectangle_alpha" =>
           \A c \in ClippedRegion :
               Alpha(PlacedPixel(c)) = 0 => data_[c] = old_data[c]

C5_Witness ==
    /\ call.op = "blendPixel"
    /\ call.t = 0
    /\ CallInBounds
    /\ Alpha(call.rgba) = 255
    /\ OldPixel # call.rgba
    /\ Alpha(OldPixel) \in 1..254

\* C6: a setPixel or blendPixel call with coordinates outside the buffer,
\* negative ones included, changes no pixel and raises no error; a call
\* inside changes at most the pixel at (x,y); in-bounds setPixel leaves that
\* pixel equal to rgba; width and height do not change.
C6_PixelCallsStayInBounds ==
    call.op \in {"setPixel", "blendPixel"} =>
        /\ ~fault
        /\ DOMAIN data_ = Coords(width_, height_)
        /\ DOMAIN old_data = Coords(width_, height_)
        /\ ~CallInBounds => data_ = old_data
        /\ \A c \in Coords(width_, height_) :
               c # <<call.x, call.y>> => data_[c] = old_data[c]
        /\ (call.op = "setPixel" /\ CallInBounds) => NewPixel = call.rgba

C6_Witness ==
    /\ call.op = "setPixel"
    /\ call.x < 0
    /\ call.y \in 0..(height_ - 1)
    /\ nops = 2
    /\ \E c \in Coords(width_, height_) : data_[c] # 0

OrderKey(c, order) ==
    CASE order = "rows" -> c[2] * width_ + c[1]
      [] order = "columns" -> c[1] * height_ + c[2]
      [] order = "backwards" -> 0 - (c[2] * width_ + c[1])

RECURSIVE InOrder(_, _)
\* the positions of S as a sequence, in the given order
InOrder(S, order) ==
    IF S = {} THEN <<>>
    ELSE LET first == CHOOSE c \in S :
                          \A e \in S : OrderKey(c, order) <= OrderKey(e, order)
         IN  <<first>> \o InOrder(S \ {first}, order)

RECURSIVE BlendEach(_, _)
\* blendPixel(x, y, src(x-x0, y-y0), alpha of src(x-x0, y-y0)) called for the
\* positions of seq, one after the other, starting from framebuffer d
BlendEach(d, seq) ==
    IF seq = <<>> THEN d
    ELSE LET c == Head(seq)
             p == PlacedPixel(c)
         IN  BlendEach(blendPixel(d, width_, height_, c[1], c[2], p, Alpha(p)).data,
                       Tail(seq))

-----------------------------------------------------------------------------
(* Claims about the resamplers                                             *)

SizesAtLeastOne ==
    /\ source.width >= 1 /\ source.height >= 1
    /\ target.width >= 1 /\ target.height >= 1

SameSizeNoOffset ==
    /\ SizesAtLeastOne
    /\ target.width = source.width
    /\ target.height = source.height
    /\ scaled.x_off = 0
    /\ scaled.y_off = 0

\* C9: when source and target have the same width and height, both at least
\* one, and the offsets are zero, each of scale_image, scale_image_bilinear
\* and scale_image_bilinear8 leaves the target equal to the source pixel for
\* pixel, whatever the source holds.
C9_SameSizeCopies ==
    (scaled.op # "none" /\ SameSizeNoOffset) =>
        /\ target = source
        /\ ~scale_fault

C9_Witness ==
    /\ scaled.op = "scale_image_bilinear8"
    /\ SameSizeNoOffset
    /\ source.width = 3
    /\ source.height = 2
    /\ target = source
    /\ target # old_target

NearestSource(c) ==
    <<(c[1] * source.width) \div target.width,
      (c[2] * source.height) \div target.height>>

\* C10: for all sizes of at least one, after scale_image every target pixel
\* (x,y) holds source(floor(x*sw/tw), floor(y*sh/th)), the duplicated rows
\* included, and no source pixel outside the source was read; a 4x4 source
\* scaled to 2x2 selects source pixels (0,0), (2,0), (0,2) and (2,2).
C10_NearestSelectsFloor ==
    (scaled.op = "scale_image" /\ SizesAtLeastOne) =>
        /\ ~scale_fault
        /\ \A c \in Coords(target.width, target.height) :
               /\ InImage(source, NearestSource(c)[1], NearestSource(c)[2])
               /\ target.data[c] = source.data[NearestSource(c)]
        /\ (source.width = 4 /\ source.height = 4 /\
            target.width = 2 /\ target.height = 2) =>
               /\ target.data[<<0, 0>>] = source.data[<<0, 0>>]
               /\ target.data[<<1, 0>>] = source.data[<<2, 0>>]
               /\ target.data[<<0, 1>>] = source.data[<<0, 2>>]
               /\ target.data[<<1, 1>>] = source.data[<<2, 2>>]

C10_Witness ==
    /\ scaled.op = "scale_image"
    /\ source.width = 4 /\ source.height = 4
    /\ target.width = 2 /\ target.height = 2
    /\ source.data[<<2, 2>>] # source.data[<<3, 3>>]
    /\ source.data[<<2, 2>>] # source.data[<<1, 1>>]
    /\ target.data[<<1, 1>>] = source.data[<<2, 2>>]

\* a target taller than its source: scale_image duplicated an output row
C10_DuplicatedRow ==
    /\ scaled.op = "scale_image"
    /\ source.width = 3 /\ source.height = 2
    /\ target.width = 2 /\ target.height = 4
    /\ target.data[<<1, 1>>] = source.data[<<1, 0>>]
    /\ target.data[<<1, 3>>] = source.data[<<1, 1>>]

Bilinear == scaled.op \in {"scale_image_bilinear", "scale_image_bilinear8"}

\* C11: for every source and target size of at least one, every fractional
\* offset and every target pixel, each of the four source coordinates that
\* scale_image_bilinear and scale_image_bilinear8 read lies in
\* 0..source_dim-1 on both axes: no source access is out of bounds.
C11_BilinearReadsInsideSource ==
    (Bilinear /\ SizesAtLeastOne) =>
        /\ ~scale_fault
        /\ \A c \in Coords(target.width, target.height) :
               LET ax == bilinear_axis(c[1], source.width, target.width,
                             bilinear_offs(source.width, target.width,
                                           scaled.x_off))
                   ay == bilinear_axis(c[2], source.height, target.height,
                             bilinear_offs(source.height, target.height,
                                           scaled.y_off))
               IN  /\ {ax.s, ax.s1} \subseteq 0..(source.width - 1)
                   /\ {ay.s, ay.s1} \subseteq 0..(source.height - 1)

\* C12: after scale_image_bilinear8 on buffers with all dimensions at least
\* one, every target pixel has alpha byte 0xff and three equal colour bytes,
\* for every source content, every size combination and every offset.
C12_Bilinear8OpaqueGrey ==
    (scaled.op = "scale_image_bilinear8" /\ SizesAtLeastOne) =>
        \A c \in Coords(target.width, target.height) :
            /\ Alpha(target.data[c]) = 255
            /\ Red(target.data[c]) = Green(target.data[c])
            /\ Green(target.data[c]) = Blue(target.data[c])

\* the weights of target index i along one axis hold what the claim says:
\* the mathematical remainder in 0..target_dim-1, or target_dim / 2, and its
\* complement; a weight is an unsigned, so a negative pattern is a value of
\* 2^31 or more
WeightsAsStated(i, source_dim, target_dim, off) ==
    LET offs == bilinear_offs(source_dim, target_dim, off)
        w == bilinear_axis(i, source_dim, target_dim, offs)
    IN  /\ w.prt = IF source_dim \div 2 < target_dim
                   THEN (i * source_dim + offs) % target_dim
                   ELSE target_dim \div 2
        /\ w.prt \in 0..target_dim
        /\ w.prt1 \in 0..target_dim
        /\ w.prt + w.prt1 = target_dim

\* C16: in scale_image_bilinear and scale_image_bilinear8, for each axis and
\* every target coordinate, the weight is (coordinate*source_dim + offset)
\* mod target_dim, in 0..target_dim-1, when source_dim/2 < target_dim and
\* target_dim/2 otherwise; the complementary weight is target_dim minus it;
\* both lie in 0..target_dim and sum to target_dim, also when
\* coordinate*source_dim + offset is negative.
C16_BilinearWeights ==
    (Bilinear /\ SizesAtLeastOne) =>
        /\ \A x \in 0..(target.width - 1) :
               WeightsAsStated(x, source.width, target.width, scaled.x_off)
        /\ \A y \in 0..(target.height - 1) :
               WeightsAsStated(y, source.height, target.height, scaled.y_off)

\* the four source pixels scale_image_bilinear samples for target pixel c
SampledPixels(c) ==
    LET ax == bilinear_axis(c[1], source.width, target.width,
                  bilinear_offs(source.width, target.width, scaled.x_off))
        ay == bilinear_axis(c[2], source.height, target.height,
                  bilinear_offs(source.height, target.height, scaled.y_off))
    IN  {source.data[<<i, j>>] : i \in {ax.s, ax.s1}, j \in {ay.s, ay.s1}}

\* C19: for all sizes of at least one with zero fractional offsets and every
\* target pixel, each of the four channels scale_image_bilinear writes lies
\* between the least and the greatest value of that channel over the four
\* sampled source pixels; a source whose pixels are all equal gives a target
\* whose pixels all equal that value.
C19_BilinearChannelsInRange ==
    (/\ scaled.op = "scale_image_bilinear"
     /\ SizesAtLeastOne
     /\ scaled.x_off = 0 /\ scaled.y_off = 0) =>
        \A c \in Coords(target.width, target.height) :
            \A t \in {0, 8, 16, 24} :
                \E lo \in SampledPixels(c), hi \in SampledPixels(c) :
                    /\ Byte(lo, t) <= Byte(target.data[c], t)
                    /\ Byte(target.data[c], t) <= Byte(hi, t)

-----------------------------------------------------------------------------
(* Claims about the blend arithmetic                                       *)

\* a blend was carried out: blendPixel inside the buffer with a coverage in
\* 1..255, or set_rectangle_alpha placing a pixel of alpha 1..255
Blended ==
    /\ call.op \in {"blendPixel", "set_rectangle_alpha"}
    /\ CallInBounds
    /\ call.t \in 1..255

\* C18: for every destination pixel, source colour and coverage in 1..255 the
\* blend of blendPixel and of set_rectangle_alpha never divides by zero, its
\* 32-bit unsigned arithmetic (the wrapping subtraction included) gives what
\* unbounded integer arithmetic gives, every stored channel and the stored
\* alpha lie in 0..255, and the stored alpha is smaller neither than the
\* destination's previous alpha nor than the coverage.
C18_BlendArithmetic ==
    Blended =>
        LET a0 == Alpha(OldPixel)
            a1 == call.t
            A == CombinedAlpha(a0, a1)
            r == ChannelSum(Red(OldPixel), Red(call.rgba), a0, a1) \div A
            g == ChannelSum(Green(OldPixel), Green(call.rgba), a0, a1) \div A
            b == ChannelSum(Blue(OldPixel), Blue(call.rgba), a0, a1) \div A
        IN  /\ ~fault
            /\ A > 0
            /\ {r, g, b, A \div 256} \subseteq 0..255
            /\ NewPixel = RGBA(r, g, b, A \div 256)
            /\ Alpha(NewPixel) >= a0
            /\ Alpha(NewPixel) >= a1

\* set_rectangle_alpha blended where (c1 << 8) - c0*a0 wraps below zero
C18_Witness ==
    /\ call.op = "set_rectangle_alpha"
    /\ Blended
    /\ call.t \in 2..254
    /\ Alpha(OldPixel) \in 2..254
    /\ Blue(call.rgba) * 256 < Blue(OldPixel) * Alpha(OldPixel)
    /\ Alpha(NewPixel) > Alpha(OldPixel)
    /\ Alpha(NewPixel) > call.t

-----------------------------------------------------------------------------
(* Claims about the box reprojection                                       *)

\* forward or backward(box, points) was called on references that differ
BoxSampled == boxed.op # "none" /\ transform_.kind # "equal"

\* the four corners of a box, in units of 1 / steps
Corners(b, steps) ==
    {Coord(steps * x, steps * y) : x \in {b.minx, b.maxx}, y \in {b.miny, b.maxy}}

\* the point the call's transform makes of p
Transformed(p) == transform_point(transform_, boxed.op, p).p

\* the min/max envelope of a set of points, in units of 1 / den
EnvelopeOf(S, den) ==
    [minx |-> SetMin({p.x : p \in S}), miny |-> SetMin({p.y : p \in S}),
     maxx |-> SetMax({p.x : p \in S}), maxy |-> SetMax({p.y : p \in S}),
     den |-> den]

\* C13: forward(box, sampleCount) and backward(box, sampleCount) with any
\* sampleCount <= 4, zero and negative ones included, sample exactly the four
\* corners of the box, and the resulting box is the min/max envelope of the
\* four transformed corners.
C13_FourCornersOnly ==
    (BoxSampled /\ boxed.points <= 4) =>
        /\ Len(boxed.coords) = 4
        /\ {boxed.coords[k] : k \in 1..4} = Corners(boxed.before, 1)
        /\ boxed.ret =>
               env = EnvelopeOf({Transformed(p) : p \in Corners(boxed.before, 1)}, 1)


\* the sampled points the geodesy library rejects
RejectedSamples ==
    {k \in 1..Len(boxed.coords) : pj_rejects(transform_.rejects, boxed.coords[k])}

\* C14: forward(box, sampleCount) and backward(box, sampleCount) return false
\* if and only if the transform of at least one sampled perimeter point is
\* rejected, for references that differ; the call stops at the first
\* rejected point, without trying it again, and on a false return the
\* caller's box is as it was passed in.
C14_FalseIffRejected ==
    BoxSampled =>
        /\ boxed.ret = (RejectedSamples = {})
        /\ ~boxed.ret =>
               /\ env = boxed.before
               /\ boxed.transformed =
                      SubSeq(boxed.coords, 1, SetMin(RejectedSamples))
        /\ boxed.ret => boxed.transformed = boxed.coords

\* a call that failed at a point after its first, on a box that a success
\* would have changed
C14_Witness ==
    /\ BoxSampled
    /\ ~boxed.ret
    /\ boxed.points > 4
    /\ Len(boxed.transformed) \in 3..(Len(boxed.coords) - 1)
    /\ env = boxed.before
    /\ env.minx < env.maxx
    /\ env.miny < env.maxy


\* the samples of the last call, as a set
Samples == {boxed.coords[k] : k \in 1..Len(boxed.coords)}

\* the points on the four edges of the box b that divide each edge into n
\* equal parts, in units of 1 / n
EvenlySpaced(b, n) ==
    {Coord(n * b.minx + i * (b.maxx - b.minx), n * y) :
         i \in 0..n, y \in {b.miny, b.maxy}}
        \cup {Coord(n * x, n * b.miny + i * (b.maxy - b.miny)) :
                  i \in 0..n, x \in {b.minx, b.maxx}}

\* the perimeter of the box b, in units of 1 / n
OnPerimeter(b, n, p) ==
    /\ n * b.minx <= p.x /\ p.x <= n * b.maxx
    /\ n * b.miny <= p.y /\ p.y <= n * b.maxy
    /\ \/ p.x \in {n * b.minx, n * b.maxx}
       \/ p.y \in {n * b.miny, n * b.maxy}

\* the statement of C17 as the specification has it: the points sampled for
\* a sampleCount above four lie on the perimeter, include the four corners,
\* are evenly spaced along each edge, and are sampleCount in number
C17_AsStated ==
    (BoxSampled /\ boxed.points > 4) =>
        /\ \A p \in Samples : OnPerimeter(boxed.before, boxed.steps, p)
        /\ Corners(boxed.before, boxed.steps) \subseteq Samples
        /\ Samples = EvenlySpaced(boxed.before, boxed.steps)
        /\ Len(boxed.coords) = boxed.points

\* C17: for every sampleCount above four the points sampled lie on the
\* perimeter of the box, include its four corners and divide each edge into
\* the same number n = ceil(sampleCount / 4) of equal parts; their number is
\* 4 * n, the least multiple of four that is at least sampleCount, and so
\* equals sampleCount only when sampleCount is a multiple of four.
C17_PerimeterSamples ==
    (BoxSampled /\ boxed.points > 4) =>
        LET n == (boxed.points + 3) \div 4
        IN  /\ boxed.steps = n
            /\ \A p \in Samples : OnPerimeter(boxed.before, n, p)
            /\ Corners(boxed.before, n) \subseteq Samples
            /\ Samples = EvenlySpaced(boxed.before, n)
            /\ Len(boxed.coords) = 4 * n
            /\ Len(boxed.coords) >= boxed.points
            /\ (Len(boxed.coords) = boxed.points) = (boxed.points % 4 = 0)

\* a call with a sampleCount that is not a multiple of four, on a box with
\* four distinct corners: more points are sampled than were asked for
C17_Witness ==
    /\ BoxSampled
    /\ boxed.points > 4
    /\ boxed.points % 4 # 0
    /\ boxed.before.minx < boxed.before.maxx
    /\ boxed.before.miny < boxed.before.maxy
    /\ Len(boxed.coords) > boxed.points
    /\ Cardinality(Samples) = Len(boxed.coords)


-----------------------------------------------------------------------------
(* Claims about the calls of several threads                               *)

\* the threads inside the geodesy library's transform
Inside == {t \in Threads : pc[t].at = "pj_transform"}

\* C15: in a thread-safe build against a library version below the
\* reentrancy threshold, whatever the interleaving of the threads' forward
\* and backward calls on whatever instances, at most one thread at a time is
\* inside the geodesy library's transform; the process-wide lock is held only
\* by a thread between taking it and returning, it is let go after a true and
\* after a false return, and every caller waiting for it eventually gets
\* inside.
C15_SerializedGeodesyCalls ==
    /\ [](Locking => Cardinality(Inside) <= 1)
    /\ [](\A t \in Threads :
             /\ (Locking /\ pc[t].at \in {"pj_transform", "return"}) => mutex_ = t
             /\ mutex_ = t => pc[t].at \in {"pj_transform", "return"})
    /\ \A t \in Threads :
           /\ (Locking /\ pc[t].at = "lock") ~> (pc[t].at = "pj_transform")
           /\ (mutex_ = t) ~> (mutex_ = NoThread)

\* one thread is about to return false with the lock while another waits
\* for it
C15_Witness ==
    /\ Locking
    /\ \E t \in Threads, u \in Threads :
           /\ t # u
           /\ mutex_ = t
           /\ pc[t].at = "return"
           /\ outcome[t].ret = "false"
           /\ pc[u].at = "lock"

=============================================================================
